---------------------------- MODULE Spec2Model ----------------------------
(***************************************************************************)
(* A model of notion-ds-manager: the property codecs, the schema record    *)
(* conversion, the filter builder and the query paginator.                 *)
(*                                                                         *)
(* Python values are tagged records: [t |-> "none"], [t |-> "str", v |-> s]*)
(* (s a sequence of characters), [t |-> "int", v |-> n], [t |-> "bool",    *)
(* v |-> b], [t |-> "list", v |-> seq], [t |-> "cond", ...] (an object of  *)
(* a FilterCondition subclass) and [t |-> "error", ...] (a raised          *)
(* exception, which every caller propagates).  Fixed-shape JSON objects    *)
(* are TLA+ records; dictionaries keyed by user-chosen names are sequences *)
(* of <<key, value>> pairs, in insertion order.                            *)
(***************************************************************************)
EXTENDS Integers, Sequences, FiniteSets, TLC

VARIABLES
    cPc, cProp, cPlain, cWire, cDecoded,    \* one encode / decode round trip
    sPc, sDoc, sResult,                     \* SchemaTemplate(properties)
    uPc, uWire, uDecoded,                   \* Rollup.from_page_value
    rPc, rImpl, rProps, rIn, rOut,          \* SchemaTemplate.to_page / from_page
    fPc, fImpl, fProps, fCall, fOut,        \* Filter: one clause, AND, OR
    qPc, qArgs, qServer, qLog,              \* query_pages: its arguments, the
    qResults, qCursor, qHasMore, qOut,      \* server, the requests, its locals
    data_sources, databases, data_templates,    \* NotionDSManager: its registry
    mPc, mOp, mLocal, mOut,                 \* the operation it runs, its locals
    mCalls, mFlight, mBefore                \* transport calls made, unanswered

codecVars == <<cPc, cProp, cPlain, cWire, cDecoded>>
schemaVars == <<sPc, sDoc, sResult>>
rollupVars == <<uPc, uWire, uDecoded>>
recordVars == <<rPc, rImpl, rProps, rIn, rOut>>
filterVars == <<fPc, fImpl, fProps, fCall, fOut>>
queryVars == <<qPc, qArgs, qServer, qLog, qResults, qCursor, qHasMore, qOut>>
managerVars ==
    <<data_sources, databases, data_templates, mPc, mOp, mLocal, mOut, mCalls,
      mFlight, mBefore>>
vars ==
    <<codecVars, schemaVars, rollupVars, recordVars, filterVars, queryVars,
      managerVars>>

-----------------------------------------------------------------------------
(* Bounds of the model *)

MaxStrLen == 2
MaxListLen == 2
\* the longest list of mappings handed to AND / OR
MaxGroups == 3
\* the pages a server holds, and the requests one query_pages call is followed for
MaxPages == 3
MaxRequests == 4

-----------------------------------------------------------------------------
(* Python values *)

None == [t |-> "none"]
PyStr(s) == [t |-> "str", v |-> s]
PyInt(n) == [t |-> "int", v |-> n]
PyFloat(n) == [t |-> "float", v |-> n]
PyBool(b) == [t |-> "bool", v |-> b]
PyList(l) == [t |-> "list", v |-> l]
\* a dict keyed by user-chosen names: its <<key, value>> pairs in insertion order
PyDict(pairs) == [t |-> "dict", v |-> pairs]
Raise(exc, what) == [t |-> "error", exc |-> exc, what |-> what]

\* x is a tagged value or a record (a fixed-shape JSON object)
IsError(x) == "t" \in DOMAIN x /\ x.t = "error"

\* isinstance(value, str), isinstance(value, bool), isinstance(value, list)
IsStr(x) == x.t = "str"
IsBool(x) == x.t = "bool"
IsList(x) == x.t = "list"
\* isinstance(value, (int, float)): bool is a subclass of int in Python
IsIntOrFloat(x) == x.t \in {"int", "float", "bool"}

Chars == {"a", " "}
SeqsUpTo(S, n) == UNION {[1..k -> S] : k \in 0..n}
Strings == {PyStr(s) : s \in SeqsUpTo(Chars, MaxStrLen)}

RECURSIVE lstrip(_)
lstrip(s) == IF s # <<>> /\ Head(s) = " " THEN lstrip(Tail(s)) ELSE s
RECURSIVE rstrip(_)
rstrip(s) ==
    IF s # <<>> /\ s[Len(s)] = " " THEN rstrip(SubSeq(s, 1, Len(s) - 1)) ELSE s
\* str.strip()
strip(s) == rstrip(lstrip(s))

\* "".join(parts): a TypeError unless every part is a str
RECURSIVE JoinChars(_)
JoinChars(parts) ==
    IF parts = <<>> THEN <<>> ELSE Head(parts).v \o JoinChars(Tail(parts))
join(parts) ==
    IF \A i \in 1..Len(parts) : IsStr(parts[i])
    THEN PyStr(JoinChars(parts))
    ELSE Raise("TypeError", "join")

\* [f(x) for x in l]
Map(Op(_), l) == [i \in 1..Len(l) |-> Op(l[i])]

-----------------------------------------------------------------------------
(* Property variants: value (plain -> wire), keyed by the property name *)

WritableKinds ==
    {"title", "rich_text", "number", "checkbox", "date", "select",
     "multi_select", "relation", "files"}
ReadOnlyTimeUserKinds ==
    {"created_time", "last_edited_time", "created_by", "last_edited_by"}
ReadOnlyKinds == ReadOnlyTimeUserKinds \cup {"rollup"}

\* a one-entry dict {name: fragment}
Entry(name, fragment) == PyDict(<<<<name, fragment>>>>)

Title_value(name, text) ==
    Entry(name, [title |-> <<[type |-> "text", text |-> [content |-> text]]>>])
RichText_value(name, text) ==
    Entry(name, [rich_text |-> <<[type |-> "text", text |-> [content |-> text]]>>])
Number_value(name, num) == Entry(name, [number |-> num])
Checkbox_value(name, checked) == Entry(name, [checkbox |-> checked])
Date_value(name, start) ==
    Entry(name, [date |-> IF start # None THEN [start |-> start] ELSE None])
Select_value(name, optname) == Entry(name, [select |-> [name |-> optname]])
\* "for x in v": a list yields its elements, a str its characters, anything
\* else is a TypeError
Iterable(v) == v.t \in {"list", "str"}
Items(v) == IF v.t = "list" THEN v.v ELSE [i \in 1..Len(v.v) |-> PyStr(<<v.v[i]>>)]
MultiSelectItem(n) == [name |-> n]
MultiSelect_value(name, names) ==
    IF Iterable(names)
    THEN Entry(name, [multi_select |-> Map(MultiSelectItem, Items(names))])
    ELSE Raise("TypeError", "not iterable")
RelationItem(r) == [id |-> r]
Relation_value(name, ids) ==
    IF Iterable(ids)
    THEN Entry(name, [relation |-> Map(RelationItem, Items(ids))])
    ELSE Raise("TypeError", "not iterable")
Files_value(name, files) == Entry(name, [files |-> files])
ReadOnly_value(kind) == Raise("ValueError", kind)

value(prop, v) ==
    CASE prop.kind = "title" -> Title_value(prop.name, v)
      [] prop.kind = "rich_text" -> RichText_value(prop.name, v)
      [] prop.kind = "number" -> Number_value(prop.name, v)
      [] prop.kind = "checkbox" -> Checkbox_value(prop.name, v)
      [] prop.kind = "date" -> Date_value(prop.name, v)
      [] prop.kind = "select" -> Select_value(prop.name, v)
      [] prop.kind = "multi_select" -> MultiSelect_value(prop.name, v)
      [] prop.kind = "relation" -> Relation_value(prop.name, v)
      [] prop.kind = "files" -> Files_value(prop.name, v)
      [] OTHER -> ReadOnly_value(prop.kind)

-----------------------------------------------------------------------------
(* Property variants: from_page_value (wire -> plain) *)

TextContent(t) == t.text.content
ItemName(item) == item.name
ItemId(item) == item.id

\* the truth value of a wire object: None and {} are false
Truthy(x) == x # None /\ DOMAIN x # {}

Title_from_page_value(nd) ==
    IF "title" \in DOMAIN nd THEN join(Map(TextContent, nd.title)) ELSE None
RichText_from_page_value(nd) ==
    IF "rich_text" \in DOMAIN nd THEN join(Map(TextContent, nd.rich_text)) ELSE None
Number_from_page_value(nd) ==
    IF "number" \in DOMAIN nd THEN nd.number ELSE None
Checkbox_from_page_value(nd) ==
    IF "checkbox" \in DOMAIN nd THEN nd.checkbox ELSE None
Date_from_page_value(nd) ==
    IF "date" \in DOMAIN nd /\ Truthy(nd.date) THEN nd.date.start ELSE None
\* a decoder that forgets the ["name"] subscript
Select_from_page_value_whole(nd) ==
    IF "select" \in DOMAIN nd /\ Truthy(nd.select) THEN nd.select ELSE None
Select_from_page_value(nd) ==
    IF "select" \in DOMAIN nd /\ Truthy(nd.select) THEN nd.select.name ELSE None
MultiSelect_from_page_value(nd) ==
    IF "multi_select" \in DOMAIN nd
    THEN PyList(Map(ItemName, nd.multi_select)) ELSE None
Relation_from_page_value(nd) ==
    IF "relation" \in DOMAIN nd THEN PyList(Map(ItemId, nd.relation)) ELSE None
Files_from_page_value(nd) ==
    IF "files" \in DOMAIN nd THEN nd.files ELSE PyList(<<>>)
\* dict.get(key): None when the key is absent
DictGet(nd, key) == IF key \in DOMAIN nd THEN nd[key] ELSE None
CreatedTime_from_page_value(nd) == DictGet(nd, "created_time")
LastEditedTime_from_page_value(nd) == DictGet(nd, "last_edited_time")
UserId(user_info) == IF Truthy(user_info) THEN DictGet(user_info, "id") ELSE None
CreatedBy_from_page_value(nd) == UserId(DictGet(nd, "created_by"))
LastEditedBy_from_page_value(nd) == UserId(DictGet(nd, "last_edited_by"))

\* the decoders of the classes in PROPERTY_TYPES other than Rollup
simple_from_page_value(kind, nd) ==
    CASE kind = "title" -> Title_from_page_value(nd)
      [] kind = "rich_text" -> RichText_from_page_value(nd)
      [] kind = "number" -> Number_from_page_value(nd)
      [] kind = "checkbox" -> Checkbox_from_page_value(nd)
      [] kind = "date" -> Date_from_page_value(nd)
      [] kind = "select" -> Select_from_page_value(nd)
      [] kind = "multi_select" -> MultiSelect_from_page_value(nd)
      [] kind = "relation" -> Relation_from_page_value(nd)
      [] kind = "files" -> Files_from_page_value(nd)
      [] kind = "created_time" -> CreatedTime_from_page_value(nd)
      [] kind = "last_edited_time" -> LastEditedTime_from_page_value(nd)
      [] kind = "created_by" -> CreatedBy_from_page_value(nd)
      [] kind = "last_edited_by" -> LastEditedBy_from_page_value(nd)

-----------------------------------------------------------------------------
(* One round trip: a property, a well-formed plain value, value() and then *)
(* from_page_value() on the fragment stored under the property's name.     *)

Names == {"A", "B"}
Numbers == {PyInt(n) : n \in -1..1} \cup {PyFloat(n) : n \in 0..1}
Booleans == {PyBool(b) : b \in BOOLEAN}
StrLists == {PyList(l) : l \in SeqsUpTo({PyStr(<<>>), PyStr(<<"a">>)}, MaxListLen)}
FileObjs == {[name |-> PyStr(<<"a">>), external |-> [url |-> PyStr(<<"a">>)]],
             [name |-> PyStr(<<>>), file |-> [url |-> PyStr(<<"a">>)]]}
FileLists == {PyList(l) : l \in SeqsUpTo(FileObjs, MaxListLen)}

\* the plain values of a variant's declared type
WellFormed(kind) ==
    CASE kind \in {"title", "rich_text", "date", "select"} -> Strings
      [] kind = "number" -> Numbers
      [] kind = "checkbox" -> Booleans
      [] kind \in {"multi_select", "relation"} -> StrLists
      [] kind = "files" -> FileLists

\* dict[key] on a dict of <<key, value>> pairs
Lookup(d, key) == d.v[CHOOSE i \in 1..Len(d.v) : d.v[i][1] = key][2]

CodecIdle ==
    /\ cPc = "off"
    /\ cProp = None
    /\ cPlain = None
    /\ cWire = None
    /\ cDecoded = None

SchemaIdle ==
    /\ sPc = "off"
    /\ sDoc = PyDict(<<>>)
    /\ sResult = None

RollupIdle ==
    /\ uPc = "off"
    /\ uWire = None
    /\ uDecoded = None

RecordIdle ==
    /\ rPc = "off"
    /\ rImpl = "properties"
    /\ rProps = PyDict(<<>>)
    /\ rIn = None
    /\ rOut = None

FilterIdle ==
    /\ fPc = "off"
    /\ fImpl = "properties"
    /\ fProps = PyDict(<<>>)
    /\ fCall = None
    /\ fOut = None

QueryIdle ==
    /\ qPc = "off"
    /\ qArgs = None
    /\ qServer = <<>>
    /\ qLog = <<>>
    /\ qResults = <<>>
    /\ qCursor = None
    /\ qHasMore = TRUE
    /\ qOut = None

ManagerIdle ==
    /\ mPc = "off"
    /\ data_sources = PyDict(<<>>)
    /\ databases = PyDict(<<>>)
    /\ data_templates = PyDict(<<>>)
    /\ mOp = None
    /\ mLocal = None
    /\ mOut = None
    /\ mCalls = <<>>
    /\ mFlight = {}
    /\ mBefore = None

CodecInit ==
    /\ QueryIdle
    /\ ManagerIdle
    /\ SchemaIdle
    /\ RollupIdle
    /\ RecordIdle
    /\ FilterIdle
    /\ cPc = "plain"
    /\ cProp \in {[kind |-> k, name |-> n] : k \in WritableKinds, n \in Names}
    /\ cPlain \in WellFormed(cProp.kind)
    /\ cWire = None
    /\ cDecoded = None

Encode ==
    /\ cPc = "plain"
    /\ cWire' = Lookup(value(cProp, cPlain), cProp.name)
    /\ cPc' = "wire"
    /\ UNCHANGED <<cProp, cPlain, cDecoded, schemaVars, rollupVars, recordVars, filterVars,
                 queryVars, managerVars>>

Decode ==
    /\ cPc = "wire"
    /\ cDecoded' = simple_from_page_value(cProp.kind, cWire)
    /\ cPc' = "decoded"
    /\ UNCHANGED <<cProp, cPlain, cWire, schemaVars, rollupVars, recordVars, filterVars,
                 queryVars, managerVars>>

CodecNext == Encode \/ Decode
CodecSpec == CodecInit /\ [][CodecNext]_vars

\* C1: for every non-read-only variant and every well-formed plain value v,
\* from_page_value applied to value(v)[name] returns v.
C1_RoundTrip == cPc = "decoded" => cDecoded = cPlain
C1_Witness ==
    /\ cPc = "decoded"
    /\ cProp.kind = "multi_select"
    /\ Len(cPlain.v) = 2
    /\ cDecoded = cPlain

-----------------------------------------------------------------------------
(* SchemaTemplate.__init__ and property_from_schema *)

PROPERTY_TYPES == WritableKinds \cup ReadOnlyKinds

\* not x, for x a str or None
Falsy(x) == x = None \/ (x.t = "str" /\ x.v = <<>>)

\* a Property object; meta holds the variant's constructor arguments
Prop(kind, name, meta) == [kind |-> kind, name |-> name, meta |-> meta]

\* the incompleteness test written with "and" for "or"
Rollup_from_schema_and(name, data) ==
    LET rollup_info == IF "rollup" \in DOMAIN data THEN data.rollup ELSE <<>>
        relation_prop_name == DictGet(rollup_info, "relation_property_name")
        rollup_prop_name == DictGet(rollup_info, "rollup_property_name")
        function == DictGet(rollup_info, "function")
    IN  IF Falsy(relation_prop_name) /\ Falsy(rollup_prop_name) /\ Falsy(function)
        THEN None
        ELSE Prop("rollup", name, <<relation_prop_name, rollup_prop_name, function>>)

Rollup_from_schema(name, data) ==
    LET rollup_info == IF "rollup" \in DOMAIN data THEN data.rollup ELSE <<>>
        relation_prop_name == DictGet(rollup_info, "relation_property_name")
        rollup_prop_name == DictGet(rollup_info, "rollup_property_name")
        function == DictGet(rollup_info, "function")
    IN  IF Falsy(relation_prop_name) \/ Falsy(rollup_prop_name) \/ Falsy(function)
        THEN None
        ELSE Prop("rollup", name, <<relation_prop_name, rollup_prop_name, function>>)

Relation_from_schema(name, data) ==
    LET rel_info == DictGet(data, "relation")
        data_source ==
            IF rel_info = None THEN None
            ELSE IF "t" \in DOMAIN rel_info THEN rel_info
            ELSE DictGet(rel_info, "data_source_id")
    IN  Prop("relation", name, data_source)

property_from_schema(name, data) ==
    LET t == data.type IN
    IF t \notin PROPERTY_TYPES THEN Raise("ValueError", t)
    ELSE IF t \in {"select", "multi_select"}
        THEN Prop(t, name, Map(ItemName, data[t].options))
    ELSE IF t = "relation" THEN Relation_from_schema(name, data)
    ELSE IF t = "rollup" THEN Rollup_from_schema(name, data)
    ELSE Prop(t, name, None)

\* the dict comprehension of __init__: entries in document order, the first
\* error ends the construction, a None property is left out
RECURSIVE BuildProperties(_, _)
BuildProperties(properties, built) ==
    IF properties = <<>> THEN PyDict(built)
    ELSE LET n == Head(properties)[1]
             prop == property_from_schema(n, Head(properties)[2])
         IN  IF IsError(prop) THEN prop
             ELSE IF prop = None THEN BuildProperties(Tail(properties), built)
             ELSE BuildProperties(Tail(properties), Append(built, <<n, prop>>))

SchemaTemplate_init(properties) == BuildProperties(properties.v, <<>>)

\* field-definition documents
SimpleKinds == PROPERTY_TYPES \ {"select", "multi_select", "relation", "rollup"}
UnknownTags == {"status", "formula"}
OptionObjs == {[name |-> PyStr(<<"a">>)]}
RollupMeta == {None, PyStr(<<"a">>)}
RollupInfos ==
    {[relation_property_name |-> r, rollup_property_name |-> p, function |-> f] :
        r \in RollupMeta, p \in RollupMeta, f \in RollupMeta}
    \cup {[relation_property_name |-> PyStr(<<"a">>),
           rollup_property_name |-> PyStr(<<"a">>), function |-> PyStr(<<>>)],
          [relation_property_name |-> PyStr(<<"a">>), function |-> PyStr(<<"a">>)]}
DocEntries ==
    {[type |-> k] : k \in SimpleKinds \cup UnknownTags \cup {"relation", "rollup"}}
    \cup {[type |-> "select", select |-> [options |-> o]] :
            o \in SeqsUpTo(OptionObjs, 1)}
    \cup {[type |-> "multi_select", multi_select |-> [options |-> o]] :
            o \in SeqsUpTo(OptionObjs, 1)}
    \cup {[type |-> "relation", relation |-> [data_source_id |-> PyStr(<<"a">>)]],
          [type |-> "relation", relation |-> PyStr(<<"a">>)]}
    \cup {[type |-> "rollup", rollup |-> i] : i \in RollupInfos}
Docs ==
    {PyDict(<<>>)}
    \cup {PyDict(<<<<n, e>>>>) : n \in Names, e \in DocEntries}
    \cup {d \in {PyDict(<<<<n, e>>, <<m, f>>>>) :
                    n \in Names, m \in Names, e \in DocEntries, f \in DocEntries} :
            d.v[1][1] # d.v[2][1]}

SchemaInit ==
    /\ QueryIdle
    /\ ManagerIdle
    /\ CodecIdle
    /\ RollupIdle
    /\ RecordIdle
    /\ FilterIdle
    /\ sPc = "doc"
    /\ sDoc \in Docs
    /\ sResult = None

Construct ==
    /\ sPc = "doc"
    /\ sResult' = SchemaTemplate_init(sDoc)
    /\ sPc' = IF IsError(SchemaTemplate_init(sDoc)) THEN "failed" ELSE "built"
    /\ UNCHANGED <<sDoc, codecVars, rollupVars, recordVars, filterVars,
                 queryVars, managerVars>>

SchemaNext == Construct
SchemaSpec == SchemaInit /\ [][SchemaNext]_vars

\* a rollup entry that lacks one of its three pieces of metadata
MissingMeta(info, key) ==
    key \notin DOMAIN info \/ info[key] = None \/ info[key] = PyStr(<<>>)
IncompleteRollup(pair) ==
    /\ pair[2].type = "rollup"
    /\ \/ "rollup" \notin DOMAIN pair[2]
       \/ MissingMeta(pair[2].rollup, "relation_property_name")
       \/ MissingMeta(pair[2].rollup, "rollup_property_name")
       \/ MissingMeta(pair[2].rollup, "function")
CompleteEntry(pair) == ~IncompleteRollup(pair)
UnknownEntries(d) == {i \in 1..Len(d) : d[i][2].type \notin PROPERTY_TYPES}

\* C10: an unknown kind tag makes construction fail with an error naming that
\* tag and no schema; otherwise the schema holds exactly the entries that are
\* not rollups with incomplete metadata, in order, each under its own name and
\* with its own kind.
C10_Construction ==
    sPc \in {"built", "failed"} =>
        LET d == sDoc.v
            kept == SelectSeq(d, CompleteEntry)
        IN  IF UnknownEntries(d) # {}
            THEN /\ sPc = "failed"
                 /\ sResult.t = "error"
                 /\ sResult.exc = "ValueError"
                 /\ \E i \in UnknownEntries(d) : sResult.what = d[i][2].type
            ELSE /\ sPc = "built"
                 /\ sResult.t = "dict"
                 /\ Len(sResult.v) = Len(kept)
                 /\ \A i \in 1..Len(kept) :
                        /\ sResult.v[i][1] = kept[i][1]
                        /\ sResult.v[i][2].name = kept[i][1]
                        /\ sResult.v[i][2].kind = kept[i][2].type
C10_Witness ==
    /\ sPc = "built"
    /\ Len(sDoc.v) = 2
    /\ IncompleteRollup(sDoc.v[1])
    /\ Len(sResult.v) = 1
    /\ sResult.v[1][2].kind = "rollup"

-----------------------------------------------------------------------------
(* Rollup.from_page_value *)

\* PROPERTY_TYPES.get(d.get("type")) finds a class
HasKnownType(d) == "type" \in DOMAIN d /\ d.type \in PROPERTY_TYPES

\* PropClass(name="__temp_rollup_parser__").from_page_value(nd): Rollup's
\* constructor has three more required arguments, so building it raises
temp_prop_from_page_value(kind, nd) ==
    IF kind = "rollup" THEN Raise("TypeError", "Rollup.__init__")
    ELSE simple_from_page_value(kind, nd)

\* every element decoded by the class its own type names
DecodeItemsOwnKind(kind, array_content) ==
    PyList([i \in 1..Len(array_content) |->
        IF HasKnownType(array_content[i])
        THEN temp_prop_from_page_value(array_content[i].type, array_content[i])
        ELSE array_content[i]])

\* the list comprehension over array_content: the first error ends it
DecodeItems(kind, array_content) ==
    LET decoded == [i \in 1..Len(array_content) |->
                        temp_prop_from_page_value(kind, array_content[i])]
        errors == {i \in 1..Len(array_content) : IsError(decoded[i])}
    IN  IF kind = "rollup" THEN Raise("TypeError", "Rollup.__init__")
        ELSE IF errors # {}
        THEN decoded[CHOOSE i \in errors : \A j \in errors : i <= j]
        ELSE PyList(decoded)

Rollup_array(rollup_data) ==
    LET array_content == IF "array" \in DOMAIN rollup_data
                         THEN rollup_data.array ELSE <<>>
    IN  IF array_content = <<>> THEN PyList(<<>>)
        ELSE IF HasKnownType(array_content[1])
        THEN DecodeItems(array_content[1].type, array_content)
        ELSE PyList(array_content)

Rollup_from_page_value(nd) ==
    LET rollup_data == DictGet(nd, "rollup") IN
    IF ~Truthy(rollup_data) THEN None
    ELSE IF "type" \in DOMAIN rollup_data /\ rollup_data.type = "array"
        THEN Rollup_array(rollup_data)
    ELSE IF HasKnownType(rollup_data)
        THEN temp_prop_from_page_value(rollup_data.type, rollup_data)
    ELSE rollup_data

\* prop.from_page_value(notion_data)
from_page_value(prop, nd) ==
    IF prop.kind = "rollup" THEN Rollup_from_page_value(nd)
    ELSE simple_from_page_value(prop.kind, nd)

\* rollup wire fragments
TextRun(s) == [type |-> "text", text |-> [content |-> s]]
RollupItems ==
    {[type |-> "select", select |-> [name |-> PyStr(<<"a">>)]],
     [type |-> "select", select |-> None],
     [type |-> "number", number |-> PyInt(1)],
     [type |-> "title", title |-> <<TextRun(PyStr(<<"a">>)), TextRun(PyStr(<<" ">>))>>],
     [type |-> "formula", formula |-> [type |-> "number", number |-> PyInt(1)]],
     [type |-> "rollup", rollup |-> [type |-> "number", number |-> PyInt(1)]],
     [select |-> [name |-> PyStr(<<"a">>)]]}
RollupScalars ==
    {[type |-> "number", number |-> PyInt(1), function |-> "sum"],
     [type |-> "number", number |-> None, function |-> "sum"],
     [type |-> "date", date |-> [start |-> PyStr(<<"a">>)], function |-> "latest_date"],
     [type |-> "date", date |-> None, function |-> "latest_date"],
     [type |-> "incomplete", incomplete |-> <<>>, function |-> "sum"],
     [type |-> "unsupported", unsupported |-> <<>>, function |-> "sum"],
     [type |-> "rollup", function |-> "sum"],
     [type |-> "array", function |-> "show_original"],
     [function |-> "sum"]}
RollupWires ==
    {[type |-> "rollup"], [type |-> "rollup", rollup |-> None],
     [type |-> "rollup", rollup |-> <<>>]}
    \cup {[type |-> "rollup", rollup |-> d] : d \in RollupScalars}
    \cup {[type |-> "rollup",
           rollup |-> [type |-> "array", array |-> a, function |-> "show_original"]] :
            a \in SeqsUpTo(RollupItems, MaxListLen)}

RollupInit ==
    /\ QueryIdle
    /\ ManagerIdle
    /\ CodecIdle
    /\ SchemaIdle
    /\ RecordIdle
    /\ FilterIdle
    /\ uPc = "wire"
    /\ uWire \in RollupWires
    /\ uDecoded = None

DecodeRollup ==
    /\ uPc = "wire"
    /\ uDecoded' = Rollup_from_page_value(uWire)
    /\ uPc' = "decoded"
    /\ UNCHANGED <<uWire, codecVars, schemaVars, recordVars, filterVars,
                 queryVars, managerVars>>

RollupNext == DecodeRollup
RollupSpec == RollupInit /\ [][RollupNext]_vars

\* the rollup object of the decoded fragment, and its element list
RollupData == uWire.rollup
IsListShaped ==
    /\ "rollup" \in DOMAIN uWire
    /\ Truthy(uWire.rollup)
    /\ "type" \in DOMAIN uWire.rollup
    /\ uWire.rollup.type = "array"
    /\ "array" \in DOMAIN uWire.rollup
    /\ uWire.rollup.array # <<>>
IsScalarShaped ==
    /\ "rollup" \in DOMAIN uWire
    /\ Truthy(uWire.rollup)
    /\ ~("type" \in DOMAIN uWire.rollup /\ uWire.rollup.type = "array")
Recognized(d) == HasKnownType(d) /\ d.type # "rollup"

-----------------------------------------------------------------------------
(* validate_value, SchemaTemplate.to_page and SchemaTemplate.from_page *)

\* prop.validate_value(value): None, or the exception raised
validate_value(prop, v) ==
    CASE prop.kind \in {"title", "rich_text", "date", "select"} ->
            IF IsStr(v) THEN None ELSE Raise("TypeError", prop.name)
      [] prop.kind = "number" ->
            IF IsIntOrFloat(v) THEN None ELSE Raise("TypeError", prop.name)
      [] prop.kind = "checkbox" ->
            IF IsBool(v) THEN None ELSE Raise("TypeError", prop.name)
      [] prop.kind \in {"multi_select", "relation", "files"} ->
            IF IsList(v) THEN None ELSE Raise("TypeError", prop.name)
      [] OTHER -> Raise("ValueError", prop.name)

DictKeys(d) == {d.v[i][1] : i \in 1..Len(d.v)}
HasKey(d, key) == key \in DictKeys(d)
\* d[key] = val: a present key keeps its place
DictSet(d, key, val) ==
    IF HasKey(d, key)
    THEN PyDict([i \in 1..Len(d.v) |->
                    IF d.v[i][1] = key THEN <<key, val>> ELSE d.v[i]])
    ELSE PyDict(Append(d.v, <<key, val>>))
\* d.update(e) for a one-entry dict e
DictUpdate(d, e) == IF e.v = <<>> THEN d ELSE DictSet(d, e.v[1][1], e.v[1][2])
\* d.get(key)
PairsGet(d, key) == IF HasKey(d, key) THEN Lookup(d, key) ELSE None

\* the loop body of to_page with the None guards dropped: a None is skipped
to_page_field_skip_none(prop, v) ==
    IF v = None THEN PyDict(<<>>)
    ELSE IF IsError(validate_value(prop, v)) THEN validate_value(prop, v)
    ELSE value(prop, v)

\* the loop body of properties.py's to_page for one (name, value): the
\* one-entry dict to merge, or the exception raised
to_page_field(prop, v) ==
    IF v = None /\ prop.kind \in ReadOnlyTimeUserKinds
    THEN Raise("ValueError", prop.name)
    ELSE IF v # None /\ IsError(validate_value(prop, v))
    THEN validate_value(prop, v)
    ELSE value(prop, v)

\* the loop body of schema.py's to_page
schema_to_page_field(prop, v) == value(prop, v)

RECURSIVE to_page_loop(_, _, _, _)
to_page_loop(impl, properties, items, props) ==
    IF items = <<>> THEN props
    ELSE LET prop == Lookup(properties, Head(items)[1])
             one == IF impl = "properties"
                    THEN to_page_field(prop, Head(items)[2])
                    ELSE schema_to_page_field(prop, Head(items)[2])
         IN  IF IsError(one) THEN one
             ELSE to_page_loop(impl, properties, Tail(items), DictUpdate(props, one))

\* a to_page that meets unknown keys only as the loop reaches them
RECURSIVE to_page_lazy_loop(_, _, _, _)
to_page_lazy_loop(impl, properties, items, props) ==
    IF items = <<>> THEN props
    ELSE IF ~HasKey(properties, Head(items)[1])
    THEN Raise("KeyError", {Head(items)[1]})
    ELSE LET prop == Lookup(properties, Head(items)[1])
             one == IF impl = "properties"
                    THEN to_page_field(prop, Head(items)[2])
                    ELSE schema_to_page_field(prop, Head(items)[2])
         IN  IF IsError(one) THEN one
             ELSE to_page_lazy_loop(impl, properties, Tail(items),
                                    DictUpdate(props, one))
to_page_lazy(impl, properties, data) ==
    to_page_lazy_loop(impl, properties, data.v, PyDict(<<>>))

to_page(impl, properties, data) ==
    LET unknown_keys == DictKeys(data) \ DictKeys(properties) IN
    IF unknown_keys # {} THEN Raise("KeyError", unknown_keys)
    ELSE to_page_loop(impl, properties, data.v, PyDict(<<>>))

\* a from_page without the else branch: an absent field is left out
RECURSIVE from_page_loop_omit(_, _, _)
from_page_loop_omit(fields, page_props, data) ==
    IF fields = <<>> THEN data
    ELSE LET key == Head(fields)[1]
             notion_data == PairsGet(page_props, key)
             val == from_page_value(Head(fields)[2], notion_data)
         IN  IF ~Truthy(notion_data)
             THEN from_page_loop_omit(Tail(fields), page_props, data)
             ELSE IF IsError(val) THEN val
             ELSE from_page_loop_omit(Tail(fields), page_props,
                                      DictSet(data, key, val))

RECURSIVE from_page_loop(_, _, _)
from_page_loop(fields, page_props, data) ==
    IF fields = <<>> THEN data
    ELSE LET key == Head(fields)[1]
             notion_data == PairsGet(page_props, key)
             val == IF Truthy(notion_data)
                    THEN from_page_value(Head(fields)[2], notion_data)
                    ELSE None
         IN  IF IsError(val) THEN val
             ELSE from_page_loop(Tail(fields), page_props, DictSet(data, key, val))

from_page(properties, page) ==
    from_page_loop(properties.v, page.properties, PyDict(<<<<"id", page.id>>>>))

\* schemas, as SchemaTemplate builds them
CompleteRollupInfo ==
    [relation_property_name |-> PyStr(<<"a">>),
     rollup_property_name |-> PyStr(<<"a">>), function |-> PyStr(<<"a">>)]
RecordEntries ==
    {[type |-> k] : k \in SimpleKinds \cup {"relation"}}
    \cup {[type |-> "select", select |-> [options |-> <<>>]],
          [type |-> "multi_select", multi_select |-> [options |-> <<>>]],
          [type |-> "rollup", rollup |-> CompleteRollupInfo]}
SecondFields == {<<"B", [type |-> "number"]>>, <<"id", [type |-> "created_time"]>>}
RecordDocs ==
    {PyDict(<<<<"A", e>>>>) : e \in RecordEntries}
    \cup {PyDict(<<<<"A", e>>, f>>) : e \in RecordEntries, f \in SecondFields}
RecordSchemas == {SchemaTemplate_init(d) : d \in RecordDocs}

\* plain records handed to to_page
DataKeys == {"A", "B", "Y", "Z"}
PlainValues ==
    {None, PyStr(<<>>), PyStr(<<"a">>), PyInt(1), PyBool(TRUE),
     PyList(<<PyStr(<<"a">>)>>)}
PlainRecords ==
    {PyDict(<<>>)}
    \cup {PyDict(<<<<k, v>>>>) : k \in DataKeys, v \in PlainValues}
    \cup {d \in {PyDict(<<<<k, v>>, <<l, w>>>>) :
                    k \in DataKeys, l \in DataKeys,
                    v \in PlainValues, w \in PlainValues} :
            d.v[1][1] # d.v[2][1]}

\* wire records handed to from_page: fragments of the shapes the server sends
WireSamples ==
    {<<>>,
     [title |-> <<>>],
     [title |-> <<TextRun(PyStr(<<"a">>)), TextRun(PyStr(<<" ">>))>>],
     [rich_text |-> <<TextRun(PyStr(<<"a">>))>>],
     [number |-> PyInt(1)], [number |-> None],
     [checkbox |-> PyBool(FALSE)],
     [date |-> None], [date |-> [start |-> PyStr(<<"a">>)]],
     [select |-> None], [select |-> [name |-> PyStr(<<"a">>)]],
     [multi_select |-> <<>>], [multi_select |-> <<[name |-> PyStr(<<"a">>)]>>],
     [relation |-> <<[id |-> PyStr(<<"a">>)]>>],
     [files |-> PyList(<<>>)],
     [created_time |-> PyStr(<<"a">>)], [last_edited_time |-> PyStr(<<"a">>)],
     [created_by |-> [id |-> PyStr(<<"a">>)]],
     [last_edited_by |-> [id |-> PyStr(<<"a">>)]],
     [rollup |-> [type |-> "number", number |-> PyInt(1)]],
     [rollup |-> [type |-> "incomplete", incomplete |-> <<>>]],
     [rollup |-> [type |-> "array",
                  array |-> <<[type |-> "select",
                               select |-> [name |-> PyStr(<<"a">>)]]>>]]}
SecondWires ==
    {<<k, w>> : k \in {"B", "id"},
                w \in {<<>>, [number |-> PyInt(1)], [created_time |-> PyStr(<<"a">>)]}}
PageProperties ==
    {PyDict(<<>>)}
    \cup {PyDict(<<<<"A", w>>>>) : w \in WireSamples}
    \cup {PyDict(<<s>>) : s \in SecondWires}
    \cup {PyDict(<<<<"A", w>>, s>>) : w \in WireSamples, s \in SecondWires}
Pages == {[id |-> PyStr(<<"a">>), properties |-> pp] : pp \in PageProperties}

RecordInit ==
    /\ QueryIdle
    /\ ManagerIdle
    /\ CodecIdle
    /\ SchemaIdle
    /\ RollupIdle
    /\ FilterIdle
    /\ rPc = "schema"
    /\ rImpl \in {"properties", "schema"}
    /\ rProps \in RecordSchemas
    /\ rIn = None
    /\ rOut = None

ToPage ==
    /\ rPc = "schema"
    /\ \E data \in PlainRecords :
          /\ rIn' = data
          /\ rOut' = to_page(rImpl, rProps, data)
    /\ rPc' = "encoded"
    /\ UNCHANGED <<rImpl, rProps, codecVars, schemaVars, rollupVars, filterVars,
                 queryVars, managerVars>>

FromPage ==
    /\ rPc = "schema"
    /\ \E page \in Pages :
          /\ rIn' = page
          /\ rOut' = from_page(rProps, page)
    /\ rPc' = "decoded"
    /\ UNCHANGED <<rImpl, rProps, codecVars, schemaVars, rollupVars, filterVars,
                 queryVars, managerVars>>

RecordNext == ToPage \/ FromPage
RecordSpec == RecordInit /\ [][RecordNext]_vars

\* C2: from_page returns a mapping whose keys are exactly the schema's field
\* names plus "id", each once, and a schema field absent from the wire record's
\* properties has the value None.
C2_AllFieldsPresent ==
    rPc = "decoded" =>
        /\ rOut.t = "dict"
        /\ DictKeys(rOut) = DictKeys(rProps) \cup {"id"}
        /\ Len(rOut.v) = Cardinality(DictKeys(rOut))
        /\ \A k \in DictKeys(rProps) :
              ~HasKey(rIn.properties, k) => Lookup(rOut, k) = None
C2_Witness ==
    /\ rPc = "decoded"
    /\ DictKeys(rProps) = {"A", "B"}
    /\ DictKeys(rIn.properties) = {"A"}
    /\ Lookup(rOut, "A") = PyStr(<<"a", " ">>)
    /\ Lookup(rOut, "B") = None

UnknownKeys == DictKeys(rIn) \ DictKeys(rProps)

\* C3: to_page raises whenever the record holds a key that is no schema field,
\* the error names exactly the record's keys that are not schema fields, and
\* it is raised whatever the values of the record's other fields are (before
\* any of them is validated or encoded).
C3_UnknownKeysRejected ==
    (rPc = "encoded" /\ UnknownKeys # {}) => rOut = Raise("KeyError", UnknownKeys)
C3_Witness ==
    /\ rPc = "encoded"
    /\ rImpl = "properties"
    /\ Len(rIn.v) = 2
    /\ rIn.v[1][1] = "A"
    /\ Lookup(rProps, "A").kind = "number"
    /\ rIn.v[1][2] = PyStr(<<"a">>)
    /\ rIn.v[2][1] = "Z"
    /\ rOut = Raise("KeyError", {"Z"})

SetsReadOnlyField ==
    \E i \in 1..Len(rIn.v) :
        /\ HasKey(rProps, rIn.v[i][1])
        /\ Lookup(rProps, rIn.v[i][1]).kind \in ReadOnlyKinds

\* C4: to_page on a record that sets a field of a read-only variant
\* (created_time, last_edited_time, created_by, last_edited_by, rollup), to any
\* value including None, raises and yields no wire record.
C4_ReadOnlyRejected ==
    (rPc = "encoded" /\ SetsReadOnlyField) => IsError(rOut)
C4_Witness ==
    /\ rPc = "encoded"
    /\ rImpl = "properties"
    /\ rIn = PyDict(<<<<"A", None>>>>)
    /\ Lookup(rProps, "A").kind = "rollup"
    /\ IsError(rOut)
    /\ rOut.exc = "ValueError"

\* the value is not None and not of the shape the variant declares
Mismatch(kind, v) ==
    /\ v # None
    /\ CASE kind \in {"title", "rich_text", "date", "select"} -> v.t # "str"
         [] kind = "number" -> v.t \notin {"int", "float"}
         [] kind = "checkbox" -> v.t # "bool"
         [] kind \in {"multi_select", "relation", "files"} -> v.t # "list"
         [] OTHER -> FALSE
SetsMismatch ==
    \E i \in 1..Len(rIn.v) :
        /\ HasKey(rProps, rIn.v[i][1])
        /\ Mismatch(Lookup(rProps, rIn.v[i][1]).kind, rIn.v[i][2])

\* C13: to_page on a record that gives a field a value of another shape than
\* the field declares (a boolean counts as no number) raises TypeError and
\* yields no wire record.
C13_TypeMismatchRejected ==
    (rPc = "encoded" /\ UnknownKeys = {} /\ ~SetsReadOnlyField /\ SetsMismatch) =>
        (IsError(rOut) /\ rOut.exc = "TypeError")

-----------------------------------------------------------------------------
(* to_notion_filter of every variant, and the Filter class *)

\* an object of a FilterCondition subclass
Condition(operator, v) == [t |-> "cond", operator |-> operator, value |-> v]

DigitChars == <<"0", "1", "2", "3", "4", "5", "6", "7", "8", "9">>
RECURSIVE Decimal(_)
Decimal(n) ==
    IF n < 0 THEN <<"-">> \o Decimal(-n)
    ELSE IF n < 10 THEN <<DigitChars[n + 1]>>
    ELSE Decimal(n \div 10) \o <<DigitChars[(n % 10) + 1]>>
\* str(value): a str is itself, a number its digits, an object its repr
str(v) ==
    CASE v.t = "str" -> v
      [] v.t = "int" -> PyStr(Decimal(v.v))
      [] v.t = "bool" -> IF v.v THEN PyStr(<<"T", "r", "u", "e">>)
                         ELSE PyStr(<<"F", "a", "l", "s", "e">>)
      [] v.t = "none" -> PyStr(<<"N", "o", "n", "e">>)
      [] OTHER -> PyStr(<<"<", v.t, ">">>)

\* value is None or str(value).strip() == ''
IsBlank(v) == v = None \/ strip(str(v).v) = <<>>
\* the same test without strip()
IsEmptyStr(v) == v = None \/ str(v).v = <<>>

\* {"property": name, kind: {operator: operand}}
Clause(name, kind, operator, operand) ==
    [property |-> name] @@ (kind :> (operator :> operand))

Title_to_notion_filter_nostrip(name, v) ==
    IF IsEmptyStr(v) THEN Clause(name, "title", "is_empty", PyBool(TRUE))
    ELSE Clause(name, "title", "contains", str(v))
Title_to_notion_filter(name, v) ==
    IF IsBlank(v) THEN Clause(name, "title", "is_empty", PyBool(TRUE))
    ELSE Clause(name, "title", "contains", str(v))
RichText_to_notion_filter(name, v) ==
    IF IsBlank(v) THEN Clause(name, "rich_text", "is_empty", PyBool(TRUE))
    ELSE Clause(name, "rich_text", "contains", str(v))
Number_to_notion_filter(name, v) ==
    IF IsBlank(v) THEN Clause(name, "number", "is_empty", PyBool(TRUE))
    ELSE Clause(name, "number", "equals", v)
Checkbox_to_notion_filter(name, v) == Clause(name, "checkbox", "equals", v)
Date_to_notion_filter(name, v) ==
    IF IsBlank(v) THEN Clause(name, "date", "is_empty", PyBool(TRUE))
    ELSE Clause(name, "date", "equals", v)
CreatedTime_to_notion_filter(name, v) ==
    Clause(name, "created_time", "on_or_after", v)
LastEditedTime_to_notion_filter(name, v) ==
    Clause(name, "last_edited_time", "on_or_after", v)
CreatedBy_to_notion_filter(name, v) == Clause(name, "created_by", "equals", v)
LastEditedBy_to_notion_filter(name, v) ==
    Clause(name, "last_edited_by", "equals", v)
\* a select filter that lost its is-empty branch
Select_to_notion_filter_noempty(name, v) == Clause(name, "select", "equals", v)
Select_to_notion_filter(name, v) ==
    IF IsBlank(v) THEN Clause(name, "select", "is_empty", PyBool(TRUE))
    ELSE Clause(name, "select", "equals", v)
MultiSelect_to_notion_filter(name, v) ==
    IF IsBlank(v) THEN Clause(name, "multi_select", "is_empty", PyBool(TRUE))
    ELSE Clause(name, "multi_select", "contains", v)
Relation_to_notion_filter(name, v) ==
    IF IsBlank(v) THEN Clause(name, "relation", "is_empty", PyBool(TRUE))
    ELSE Clause(name, "relation", "contains", v)
Files_to_notion_filter(name, v) ==
    IF v = PyBool(TRUE) THEN Clause(name, "files", "is_not_empty", PyBool(TRUE))
    ELSE IF v = PyBool(FALSE) THEN Clause(name, "files", "is_empty", PyBool(TRUE))
    ELSE Raise("ValueError", "Files filter")
Rollup_to_notion_filter(name, v) == Raise("NotImplementedError", name)

to_notion_filter(prop, v) ==
    CASE prop.kind = "title" -> Title_to_notion_filter(prop.name, v)
      [] prop.kind = "rich_text" -> RichText_to_notion_filter(prop.name, v)
      [] prop.kind = "number" -> Number_to_notion_filter(prop.name, v)
      [] prop.kind = "checkbox" -> Checkbox_to_notion_filter(prop.name, v)
      [] prop.kind = "date" -> Date_to_notion_filter(prop.name, v)
      [] prop.kind = "created_time" -> CreatedTime_to_notion_filter(prop.name, v)
      [] prop.kind = "last_edited_time" ->
            LastEditedTime_to_notion_filter(prop.name, v)
      [] prop.kind = "created_by" -> CreatedBy_to_notion_filter(prop.name, v)
      [] prop.kind = "last_edited_by" -> LastEditedBy_to_notion_filter(prop.name, v)
      [] prop.kind = "select" -> Select_to_notion_filter(prop.name, v)
      [] prop.kind = "multi_select" -> MultiSelect_to_notion_filter(prop.name, v)
      [] prop.kind = "relation" -> Relation_to_notion_filter(prop.name, v)
      [] prop.kind = "files" -> Files_to_notion_filter(prop.name, v)
      [] prop.kind = "rollup" -> Rollup_to_notion_filter(prop.name, v)

\* prop.schema_key: the fixed tag of the variant's wire encoding
schema_key(prop) == prop.kind

\* filters.py: Filter._build_condition
_build_condition(prop, condition) ==
    Clause(prop.name, schema_key(prop), condition.operator, condition.value)

\* Filter._get_prop_filter, of properties.py (impl = "properties") and of
\* filters.py (impl = "filters"), which alone tells a FilterCondition apart
_get_prop_filter(impl, properties, prop_name, v) ==
    IF ~HasKey(properties, prop_name) THEN Raise("KeyError", prop_name)
    ELSE IF impl = "filters" /\ v.t = "cond"
        THEN _build_condition(Lookup(properties, prop_name), v)
    ELSE to_notion_filter(Lookup(properties, prop_name), v)

\* the first exception of a list of results, if any
FirstError(results) ==
    LET errors == {i \in 1..Len(results) : IsError(results[i])} IN
    results[CHOOSE i \in errors : \A j \in errors : i <= j]
AnyError(results) == \E i \in 1..Len(results) : IsError(results[i])

\* the truth value of a Python value
PyTruthy(x) ==
    CASE x.t = "none" -> FALSE
      [] x.t \in {"str", "list", "dict"} -> x.v # <<>>
      [] x.t = "bool" -> x.v
      [] x.t \in {"int", "float"} -> x.v # 0
      [] OTHER -> TRUE

\* a _create_and_block that wraps a single clause too
_create_and_block_nocollapse(impl, properties, simple_filter) ==
    IF impl = "properties" /\ simple_filter.t # "dict" THEN <<>>
    ELSE IF ~PyTruthy(simple_filter) THEN <<>>
    ELSE IF simple_filter.t # "dict" THEN Raise("AttributeError", "items")
    ELSE LET full_filters ==
                [i \in 1..Len(simple_filter.v) |->
                    _get_prop_filter(impl, properties, simple_filter.v[i][1],
                                     simple_filter.v[i][2])]
         IN  IF AnyError(full_filters) THEN FirstError(full_filters)
             ELSE "and" :> full_filters

\* Filter._create_and_block; filters.py calls .items() on whatever is truthy
_create_and_block(impl, properties, simple_filter) ==
    IF impl = "properties" /\ simple_filter.t # "dict" THEN <<>>
    ELSE IF ~PyTruthy(simple_filter) THEN <<>>
    ELSE IF simple_filter.t # "dict" THEN Raise("AttributeError", "items")
    ELSE LET full_filters ==
                [i \in 1..Len(simple_filter.v) |->
                    _get_prop_filter(impl, properties, simple_filter.v[i][1],
                                     simple_filter.v[i][2])]
         IN  IF AnyError(full_filters) THEN FirstError(full_filters)
             ELSE IF Len(full_filters) = 1 THEN full_filters[1]
             ELSE "and" :> full_filters

\* the list branch of AND and OR: key is "and" or "or"
Combine(key, impl, properties, filters) ==
    LET all_blocks == [i \in 1..Len(filters.v) |->
                        _create_and_block(impl, properties, filters.v[i])]
        and_blocks == SelectSeq(all_blocks, Truthy)
    IN  IF AnyError(all_blocks) THEN FirstError(all_blocks)
        ELSE IF Len(and_blocks) = 1 THEN and_blocks[1]
        ELSE IF and_blocks = <<>> THEN <<>>
        ELSE key :> and_blocks

AND(impl, properties, filters) ==
    IF filters.t = "dict" THEN _create_and_block(impl, properties, filters)
    ELSE IF filters.t = "list" THEN Combine("and", impl, properties, filters)
    ELSE Raise("TypeError", "AND")

OR(impl, properties, filters) ==
    IF filters.t = "dict" THEN _create_and_block(impl, properties, filters)
    ELSE IF filters.t = "list" THEN Combine("or", impl, properties, filters)
    ELSE Raise("TypeError", "OR")

\* schemas to filter on: field A of every variant, field B a number
FilterDocs == {PyDict(<<<<"A", e>>, <<"B", [type |-> "number"]>>>>) : e \in RecordEntries}
FilterSchemas == {SchemaTemplate_init(d) : d \in FilterDocs}

\* operands: plain values and FilterCondition objects
ValueOperators ==
    {"equals", "does_not_equal", "contains", "does_not_contain", "starts_with",
     "ends_with", "greater_than", "less_than", "greater_than_or_equal_to",
     "less_than_or_equal_to", "before", "after", "on_or_before", "on_or_after"}
CondValues == {None, PyStr(<<>>), PyStr(<<" ">>), PyStr(<<"a">>), PyInt(1)}
Conditions ==
    {Condition(o, v) : o \in ValueOperators, v \in CondValues}
    \cup {Condition("is_empty", PyBool(TRUE)), Condition("is_not_empty", PyBool(TRUE))}
PlainOperands == Strings \cup {None, PyInt(1), PyInt(10)} \cup Booleans
Operands == PlainOperands \cup Conditions
FilterFields == {"A", "B", "N"}

\* the mappings AND and OR combine
Groups ==
    {PyDict(<<>>),
     PyDict(<<<<"A", PyStr(<<"a">>)>>>>),
     PyDict(<<<<"B", PyInt(1)>>>>),
     PyDict(<<<<"A", PyBool(TRUE)>>, <<"B", None>>>>),
     PyDict(<<<<"N", PyStr(<<"a">>)>>>>),
     PyDict(<<<<"A", Condition("contains", PyStr(<<>>))>>>>),
     PyStr(<<"a">>)}
FilterInputs ==
    Groups \cup {PyList(l) : l \in SeqsUpTo(Groups, MaxGroups)} \cup {PyInt(1)}

FilterInit ==
    /\ QueryIdle
    /\ ManagerIdle
    /\ CodecIdle
    /\ SchemaIdle
    /\ RollupIdle
    /\ RecordIdle
    /\ fPc = "schema"
    /\ fImpl \in {"properties", "filters"}
    /\ fProps \in FilterSchemas
    /\ fCall = None
    /\ fOut = None

PropFilter ==
    /\ fPc = "schema"
    /\ \E name \in FilterFields, operand \in Operands :
          /\ fCall' = [op |-> "clause", name |-> name, operand |-> operand]
          /\ fOut' = _get_prop_filter(fImpl, fProps, name, operand)
    /\ fPc' = "built"
    /\ UNCHANGED <<fImpl, fProps, codecVars, schemaVars, rollupVars, recordVars,
                 queryVars, managerVars>>

CallAND ==
    /\ fPc = "schema"
    /\ \E filters \in FilterInputs :
          /\ fCall' = [op |-> "and", filters |-> filters]
          /\ fOut' = AND(fImpl, fProps, filters)
    /\ fPc' = "built"
    /\ UNCHANGED <<fImpl, fProps, codecVars, schemaVars, rollupVars, recordVars,
                 queryVars, managerVars>>

CallOR ==
    /\ fPc = "schema"
    /\ \E filters \in FilterInputs :
          /\ fCall' = [op |-> "or", filters |-> filters]
          /\ fOut' = OR(fImpl, fProps, filters)
    /\ fPc' = "built"
    /\ UNCHANGED <<fImpl, fProps, codecVars, schemaVars, rollupVars, recordVars,
                 queryVars, managerVars>>

FilterNext == PropFilter \/ CallAND \/ CallOR
FilterSpec == FilterInit /\ [][FilterNext]_vars

\* the call combined a list whose elements are all mappings
CombinedMappings ==
    /\ fPc = "built"
    /\ fCall.op \in {"and", "or"}
    /\ fCall.filters.t = "list"
    /\ \A i \in 1..Len(fCall.filters.v) : fCall.filters.v[i].t = "dict"
NonEmptyGroup(g) == g.v # <<>>
ClauseOf(pair) == _get_prop_filter(fImpl, fProps, pair[1], pair[2])
GroupClauses(g) == [i \in 1..Len(g.v) |-> ClauseOf(g.v[i])]
GroupTree(g) == IF Len(g.v) = 1 THEN ClauseOf(g.v[1]) ELSE "and" :> GroupClauses(g)
SomeClauseRaises(groups) ==
    \E i \in 1..Len(groups) : AnyError(GroupClauses(groups[i]))
\* no "and" / "or" node of the tree, at either level, has fewer than two children
NodeOk(n) == \A k \in {"and", "or"} \cap DOMAIN n : Len(n[k]) >= 2
TreeOk(tree) ==
    /\ NodeOk(tree)
    /\ \A k \in {"and", "or"} \cap DOMAIN tree :
          \A i \in 1..Len(tree[k]) : NodeOk(tree[k][i])

\* C5: AND / OR over a list of mappings discard the empty mappings; no group
\* left gives {}, one group gives that group's tree unwrapped, two or more
\* give {"and": groups} / {"or": groups} in input order; a mapping of one
\* entry is that field's clause and a mapping of several is {"and": clauses};
\* no "and" or "or" node has fewer than two children.
C5_Collapsing ==
    (CombinedMappings /\ ~SomeClauseRaises(fCall.filters.v)) =>
        LET groups == SelectSeq(fCall.filters.v, NonEmptyGroup) IN
        /\ Len(groups) = 0 => fOut = <<>>
        /\ Len(groups) = 1 => fOut = GroupTree(groups[1])
        /\ Len(groups) >= 2 =>
              fOut = (fCall.op :> [i \in 1..Len(groups) |-> GroupTree(groups[i])])
        /\ TreeOk(fOut)
C5_Witness ==
    /\ CombinedMappings
    /\ fCall.op = "or"
    /\ Len(fCall.filters.v) = 3
    /\ fCall.filters.v[2] = PyDict(<<>>)
    /\ "or" \in DOMAIN fOut
    /\ Len(fOut["or"]) = 2
    /\ "and" \in DOMAIN fOut["or"][1]
    /\ "property" \in DOMAIN fOut["or"][2]

TextField ==
    /\ fPc = "built"
    /\ fCall.op = "clause"
    /\ HasKey(fProps, fCall.name)
    /\ Lookup(fProps, fCall.name).kind \in {"title", "rich_text"}
IsEmptyClause ==
    fOut = Clause(fCall.name, Lookup(fProps, fCall.name).kind, "is_empty", PyBool(TRUE))
BlankValue(v) == v = None \/ (v.t = "str" /\ \A i \in 1..Len(v.v) : v.v[i] = " ")

\* C6, in the words of the specification: on a title or rich_text field a
\* null or blank operand gives the is_empty clause, also when it comes inside
\* a tagged condition.
C6_BlankIsEmptyAlways ==
    (/\ TextField
     /\ \/ BlankValue(fCall.operand)
        \/ fCall.operand.t = "cond" /\ BlankValue(fCall.operand.value))
    => IsEmptyClause

\* C6, in the form the code satisfies: on a title or rich_text field a plain
\* (untagged) operand that is None or a blank string gives
\* {property: name, <kind>: {is_empty: true}}.
C6_BlankPlainIsEmpty ==
    (TextField /\ BlankValue(fCall.operand)) => IsEmptyClause
C6_Witness ==
    /\ TextField
    /\ fCall.operand = PyStr(<<" ", " ">>)
    /\ Lookup(fProps, fCall.name).kind = "title"
    /\ IsEmptyClause

\* one clause was built for a field of the schema
ClauseCall ==
    /\ fPc = "built"
    /\ fCall.op = "clause"
    /\ HasKey(fProps, fCall.name)
FieldKind == Lookup(fProps, fCall.name).kind

\* C11: a tagged condition given for a field yields the clause
\* {property: name, <field's wire kind>: {<its operator>: <its operand>}},
\* whatever the variant's default policy is, in every Filter class.
C11_TaggedConditionClause ==
    (ClauseCall /\ fCall.operand.t = "cond") =>
        fOut = Clause(fCall.name, FieldKind,
                      fCall.operand.operator, fCall.operand.value)

\* the call names a rollup field: as the one field, or in some mapping
NamesRollup(g) ==
    /\ g.t = "dict"
    /\ \E i \in 1..Len(g.v) :
          HasKey(fProps, g.v[i][1]) /\ Lookup(fProps, g.v[i][1]).kind = "rollup"
CombinesRollup ==
    /\ fPc = "built"
    /\ fCall.op \in {"and", "or"}
    /\ \/ NamesRollup(fCall.filters)
       \/ /\ fCall.filters.t = "list"
          /\ \A i \in 1..Len(fCall.filters.v) : fCall.filters.v[i].t = "dict"
          /\ \E i \in 1..Len(fCall.filters.v) : NamesRollup(fCall.filters.v[i])

\* C14: a filter on a rollup field never yields a clause: the field's own
\* clause raises NotImplementedError for every operand, tagged or not, and a
\* combination that names a rollup field raises.
C14_RollupNotSupported ==
    /\ (ClauseCall /\ FieldKind = "rollup") =>
          (IsError(fOut) /\ fOut.exc = "NotImplementedError")
    /\ CombinesRollup => IsError(fOut)

PlainClauseCall == ClauseCall /\ fCall.operand.t # "cond"
FilterableKinds == PROPERTY_TYPES \ {"files", "rollup"}
EmptyAwareKinds ==
    {"title", "rich_text", "number", "date", "select", "multi_select", "relation"}
DefaultOperator(kind) ==
    CASE kind \in {"title", "rich_text", "multi_select", "relation"} -> "contains"
      [] kind \in {"created_time", "last_edited_time"} -> "on_or_after"
      [] OTHER -> "equals"
\* the operand as the clause carries it: its text on a text field
Carried(kind, v) == IF kind \in {"title", "rich_text"} THEN str(v) ELSE v

\* C15, in the words of the specification: for every filterable variant but
\* files a null or blank operand gives the is_empty clause and any other
\* operand gives the variant's default operator carrying the operand.
C15_DefaultPolicyAll ==
    (PlainClauseCall /\ FieldKind \in FilterableKinds) =>
        IF BlankValue(fCall.operand)
        THEN fOut = Clause(fCall.name, FieldKind, "is_empty", PyBool(TRUE))
        ELSE fOut = Clause(fCall.name, FieldKind, DefaultOperator(FieldKind),
                           Carried(FieldKind, fCall.operand))

\* C15, in the form the code satisfies: title, rich_text, number, date,
\* select, multi_select and relation give the is_empty clause for a null or
\* blank operand; every other case, and every operand of checkbox,
\* created_time, last_edited_time, created_by and last_edited_by, gives the
\* variant's default operator carrying the operand.
C15_DefaultPolicy ==
    (PlainClauseCall /\ FieldKind \in FilterableKinds) =>
        IF FieldKind \in EmptyAwareKinds /\ BlankValue(fCall.operand)
        THEN fOut = Clause(fCall.name, FieldKind, "is_empty", PyBool(TRUE))
        ELSE fOut = Clause(fCall.name, FieldKind, DefaultOperator(FieldKind),
                           Carried(FieldKind, fCall.operand))
C15_Witness ==
    /\ PlainClauseCall
    /\ FieldKind = "select"
    /\ fCall.operand = None
    /\ fOut = Clause(fCall.name, "select", "is_empty", PyBool(TRUE))

-----------------------------------------------------------------------------
(* NotionDSManager.query_pages against a paginating server *)

\* the schema registered for the queried data source
QueryProps ==
    SchemaTemplate_init(PyDict(<<<<"A", [type |-> "title"]>>,
                                 <<"B", [type |-> "number"]>>>>))

\* over_requests(): len(results) / page_size >= max_requests, a true division
\* by a positive page_size, is len(results) >= max_requests * page_size
over_requests(max_requests, results, page_size) ==
    IF max_requests = None THEN FALSE
    ELSE Len(results) >= max_requests.v * page_size

\* the "filter" entry of the body, or nothing, or the exception raised
body_entry(f) == IF IsError(f) THEN f ELSE [filter |-> f]
\* self.data_templates[name].and_filter(filters) / .or_filter(filters)
template_filter(templates, name, filter_type, filters) ==
    IF ~HasKey(templates, name) THEN Raise("KeyError", name)
    ELSE IF filter_type = "and"
        THEN AND("properties", Lookup(templates, name), filters)
    ELSE OR("properties", Lookup(templates, name), filters)
body_filter_of(templates, args) ==
    IF ~PyTruthy(args.filters) THEN <<>>
    ELSE IF args.filters.t # "list" THEN Raise("AssertionError", "filters")
    ELSE IF args.filter_type \in {"and", "or"}
        THEN body_entry(template_filter(templates, args.data_source_name,
                                        args.filter_type, args.filters))
    ELSE <<>>
body_filter(args) == body_filter_of(PyDict(<<<<"DS", QueryProps>>>>), args)

\* the body of one page request, or the exception raised while building it
\* a body that never carries the cursor
body_with_nocursor(args, cursor, filter) ==
    IF IsError(filter) THEN filter
    ELSE [page_size |-> args.page_size]
         @@ filter
         @@ (IF PyTruthy(args.sorts) THEN [sorts |-> args.sorts] ELSE <<>>)

body_with(args, cursor, filter) ==
    IF IsError(filter) THEN filter
    ELSE [page_size |-> args.page_size]
         @@ (IF PyTruthy(cursor) THEN [start_cursor |-> cursor] ELSE <<>>)
         @@ filter
         @@ (IF PyTruthy(args.sorts) THEN [sorts |-> args.sorts] ELSE <<>>)
request_body(args, cursor) == body_with(args, cursor, body_filter(args))

\* the server: page i is answered to the cursor CursorOf(i), page 1 to a body
\* without start_cursor; a last page that reports has_more is served again
CursorOf(i) == PyStr(<<"c">> \o Decimal(i))
ServedPage(server, body) ==
    IF "start_cursor" \in DOMAIN body
    THEN CHOOSE i \in 1..Len(server) : CursorOf(i) = body.start_cursor
    ELSE 1
Respond(server, body) ==
    LET i == ServedPage(server, body) IN
    [results |-> server[i].results,
     has_more |-> server[i].has_more,
     next_cursor |-> IF server[i].has_more
                     THEN CursorOf(IF i < Len(server) THEN i + 1 ELSE i)
                     ELSE None]

\* results assigned where it should be extended
after_response_replace(results, response) ==
    [results |-> response.results,
     cursor |-> response.next_cursor,
     has_more |-> response.has_more]

\* results.extend(...); cursor = ...; has_more = ...
after_response(results, response) ==
    [results |-> results \o response.results,
     cursor |-> response.next_cursor,
     has_more |-> response.has_more]

\* [from_page(page) for page in results]
decode_results(results) ==
    LET decoded == [i \in 1..Len(results) |-> from_page(QueryProps, results[i])]
    IN  IF AnyError(decoded) THEN FirstError(decoded) ELSE PyList(decoded)

PageRecord(i, j) ==
    [id |-> PyStr(<<"r">> \o Decimal(10 * i + j)),
     properties |-> PyDict(<<<<"A", [title |-> <<TextRun(PyStr(<<"a">>))>>]>>>>)]
ServerOf(sizes, flags) ==
    [i \in 1..Len(sizes) |->
        [results |-> [j \in 1..sizes[i] |-> PageRecord(i, j)],
         has_more |-> flags[i]]]
Servers(page_size) ==
    UNION {{ServerOf(sizes, flags) :
                sizes \in [1..n -> 0..page_size], flags \in [1..n -> BOOLEAN]} :
           n \in 1..MaxPages}

PageSizes == {1, 2}
Ceilings == {None, PyInt(0), PyInt(1), PyInt(2)}
SortObj == [property |-> "A", direction |-> "ascending"]
FilterArgs ==
    {[filters |-> None, filter_type |-> "and", sorts |-> PyList(<<>>)],
     [filters |-> PyList(<<PyDict(<<<<"A", PyStr(<<"a">>)>>>>)>>),
      filter_type |-> "and", sorts |-> PyList(<<SortObj>>)],
     [filters |-> PyList(<<PyDict(<<<<"A", PyStr(<<"a">>)>>>>),
                           PyDict(<<<<"B", PyInt(1)>>>>)>>),
      filter_type |-> "or", sorts |-> PyList(<<>>)],
     [filters |-> PyList(<<PyDict(<<<<"N", PyStr(<<"a">>)>>>>)>>),
      filter_type |-> "and", sorts |-> PyList(<<>>)]}
QueryArgs ==
    {[data_source_name |-> "DS", max_requests |-> m, page_size |-> p,
      filters |-> f.filters, filter_type |-> f.filter_type, sorts |-> f.sorts] :
        m \in Ceilings, p \in PageSizes, f \in FilterArgs}

QueryInit ==
    /\ CodecIdle
    /\ SchemaIdle
    /\ RollupIdle
    /\ RecordIdle
    /\ FilterIdle
    /\ ManagerIdle
    /\ qPc = "call"
    /\ qArgs \in QueryArgs
    /\ qServer \in Servers(qArgs.page_size)
    /\ qLog = <<>>
    /\ qResults = <<>>
    /\ qCursor = None
    /\ qHasMore = TRUE
    /\ qOut = None

notQuery ==
    <<codecVars, schemaVars, rollupVars, recordVars, filterVars, managerVars>>

\* entry: results = [], cursor = None, has_more = True
QueryEnter ==
    /\ qPc = "call"
    /\ qPc' = "loop"
    /\ qResults' = <<>>
    /\ qCursor' = None
    /\ qHasMore' = TRUE
    /\ UNCHANGED <<qArgs, qServer, qLog, qOut, notQuery>>

LoopCondition ==
    qHasMore /\ ~over_requests(qArgs.max_requests, qResults, qArgs.page_size)

\* the request is sent and its response taken in
Request(body) ==
    /\ ~IsError(body)
    /\ qLog' = Append(qLog, body)
    /\ LET after == after_response(qResults, Respond(qServer, body))
       IN  /\ qResults' = after.results
           /\ qCursor' = after.cursor
           /\ qHasMore' = after.has_more

\* one pass of the loop body whose request is answered
QueryPage ==
    /\ qPc = "loop"
    /\ LoopCondition
    /\ Len(qLog) < MaxRequests
    /\ Request(request_body(qArgs, qCursor))
    /\ UNCHANGED <<qPc, qArgs, qServer, qOut, notQuery>>

\* the exception leaves query_pages
Propagate(body) == IsError(body) /\ qOut' = body

\* one pass of the loop body that raises while building the body
QueryRaise ==
    /\ qPc = "loop"
    /\ LoopCondition
    /\ Propagate(request_body(qArgs, qCursor))
    /\ qPc' = "raised"
    /\ UNCHANGED <<qArgs, qServer, qLog, qResults, qCursor, qHasMore, notQuery>>

\* the loop ends and the accumulated pages are decoded
QueryReturn ==
    /\ qPc = "loop"
    /\ ~LoopCondition
    /\ qOut' = decode_results(qResults)
    /\ qPc' = "done"
    /\ UNCHANGED <<qArgs, qServer, qLog, qResults, qCursor, qHasMore, notQuery>>

QueryNext == QueryEnter \/ QueryPage \/ QueryRaise \/ QueryReturn
QuerySpec == QueryInit /\ [][QueryNext]_vars

\* the first page of the server that reports has_more = false, 0 if none does
LastPage ==
    IF \E i \in 1..Len(qServer) : ~qServer[i].has_more
    THEN CHOOSE i \in 1..Len(qServer) :
            /\ ~qServer[i].has_more
            /\ \A j \in 1..(i - 1) : qServer[j].has_more
    ELSE 0
RECURSIVE PagesUpTo(_)
PagesUpTo(n) == IF n = 0 THEN <<>> ELSE PagesUpTo(n - 1) \o qServer[n].results

\* C8: with no ceiling, against a server whose pages p1..pn report has_more on
\* p1..p(n-1) and not on pn, query_pages issues exactly n requests and returns
\* the decoded records of p1..pn in server order, none dropped or duplicated.
C8_AllPagesOnce ==
    (qPc = "done" /\ qArgs.max_requests = None /\ LastPage > 0) =>
        /\ Len(qLog) = LastPage
        /\ qOut.t = "list"
        /\ Len(qOut.v) = Len(PagesUpTo(LastPage))
        /\ \A k \in 1..Len(qOut.v) :
              qOut.v[k] = from_page(QueryProps, PagesUpTo(LastPage)[k])
C8_Witness ==
    /\ qPc = "done"
    /\ qArgs.max_requests = None
    /\ qArgs.page_size = 2
    /\ LastPage = 3
    /\ Len(qServer[1].results) = 2
    /\ Len(qServer[2].results) = 2
    /\ Len(qServer[3].results) = 1
    /\ Len(qLog) = 3
    /\ Len(qOut.v) = 5

\* C9: with a ceiling max_requests = N, query_pages issues at most N page
\* requests, whatever has_more says and however many records a page holds.
C9_AtMostNRequests ==
    (qPc # "off" /\ qArgs.max_requests # None) => Len(qLog) <= qArgs.max_requests.v

\* the response the server gave to the k-th request of the log
ResponseTo(k) == Respond(qServer, qLog[k])
\* a request without its cursor
WithoutCursor(body) == [k \in DOMAIN body \ {"start_cursor"} |-> body[k]]

\* C16: the first request carries no start_cursor, every later request
\* carries the next_cursor of the response just before it, every request of
\* the call carries the same page_size, filter and sorts, and no page is
\* requested twice unless the server itself hands out a page's cursor again.
C16_CursorChain ==
    /\ Len(qLog) >= 1 => "start_cursor" \notin DOMAIN qLog[1]
    /\ \A k \in 2..Len(qLog) :
          /\ "start_cursor" \in DOMAIN qLog[k]
          /\ qLog[k].start_cursor = ResponseTo(k - 1).next_cursor
          /\ WithoutCursor(qLog[k]) = qLog[1]
    /\ \A k \in 1..Len(qLog) : qLog[k].page_size = qArgs.page_size
    /\ \A j, k \in 1..Len(qLog) :
          (j < k /\ ServedPage(qServer, qLog[j]) = ServedPage(qServer, qLog[k]))
              => ResponseTo(j).next_cursor = CursorOf(ServedPage(qServer, qLog[j]))
C16_Witness ==
    /\ Len(qLog) = 3
    /\ "filter" \in DOMAIN qLog[1]
    /\ "sorts" \in DOMAIN qLog[1]
    /\ qLog[2].start_cursor = CursorOf(2)
    /\ qLog[3].start_cursor = CursorOf(3)
    /\ qLog[3].filter = qLog[1].filter

-----------------------------------------------------------------------------
(* query_pages run to its end: the log holds the last requests, and starts *)
(* anew once it holds MaxRequests of them                                  *)

\* the calls the loop is meant to end: a ceiling is given, or some page of
\* the server reports has_more = false; the filter, built anew and alike on
\* every pass, is none or one that raises
QueryLiveInit ==
    /\ QueryInit
    /\ qArgs.filters = None \/ IsError(body_filter(qArgs))
    /\ \/ qArgs.max_requests # None
       \/ \E i \in 1..Len(qServer) : ~qServer[i].has_more

Fetch(body) ==
    /\ ~IsError(body)
    /\ qLog' = IF Len(qLog) < MaxRequests THEN Append(qLog, body) ELSE <<body>>
    /\ LET after == after_response(qResults, Respond(qServer, body))
       IN  /\ qResults' = after.results
           /\ qCursor' = after.cursor
           /\ qHasMore' = after.has_more

\* one pass of the loop body whose request is answered
QueryFetch ==
    /\ qPc = "loop"
    /\ LoopCondition
    /\ Fetch(request_body(qArgs, qCursor))
    /\ UNCHANGED <<qPc, qArgs, qServer, qOut, notQuery>>

QueryLiveNext == QueryEnter \/ QueryFetch \/ QueryRaise \/ QueryReturn
\* the interpreter runs the call on: every enabled step is taken
QueryLiveSpec ==
    QueryLiveInit /\ [][QueryLiveNext]_vars /\ WF_vars(QueryLiveNext)

\* C17: query_pages terminates: once a response reports has_more = false the
\* loop ends, and a call given a ceiling max_requests ends whatever the
\* server answers.
C17_Terminates ==
    /\ (qPc = "loop" /\ ~qHasMore) ~> (qPc = "done")
    /\ (qPc = "call" /\ qArgs.max_requests # None) ~> (qPc \in {"done", "raised"})

-----------------------------------------------------------------------------
(* NotionDSManager: the registry, its operations and their transport calls *)

Registry ==
    [data_sources |-> data_sources, databases |-> databases,
     data_templates |-> data_templates]

\* a call handed to the client, and the exception a call may end in
Call(method, payload) == [method |-> method, payload |-> payload]
TransportError == Raise("APIResponseError", "transport")

\* the result of a stretch of code: the registry it leaves, and what it
\* returned or raised
Outcome(reg, out) == [reg |-> reg, out |-> out]

\* the loop of discover_data_sources over the data sources found
RECURSIVE discover_loop(_, _)
discover_loop(reg, results) ==
    IF results = <<>> THEN Outcome(reg, None)
    ELSE LET ds == Head(results) IN
         IF ds.title = <<>> THEN Outcome(reg, Raise("IndexError", "title"))
         ELSE LET title == ds.title[1].plain_text
                  r1 == [reg EXCEPT !.data_sources = DictSet(@, title, ds.id)]
                  r2 == [r1 EXCEPT
                            !.databases = DictSet(@, title, ds.parent.database_id)]
                  template == SchemaTemplate_init(ds.properties)
              IN  IF IsError(template) THEN Outcome(r2, template)
                  ELSE discover_loop(
                          [r2 EXCEPT !.data_templates = DictSet(@, title, template)],
                          Tail(results))

\* discover_data_sources once the search has answered
discover_data_sources(reg, results) ==
    IF IsError(results) THEN Outcome(reg, results)
    ELSE LET found == IF "results" \in DOMAIN results THEN results.results ELSE <<>>
             done == discover_loop(reg, found)
         IN  IF IsError(done.out) THEN done ELSE Outcome(done.reg, results)

\* get_id
get_id(reg, name) ==
    IF HasKey(reg.data_sources, name) THEN Lookup(reg.data_sources, name)
    ELSE Raise("KeyError", name)

\* Property.build of Title and Number, and Properties.build
Property_build(prop) == PyDict(<<<<prop.name, (prop.kind :> <<>>)>>>>)
RECURSIVE Properties_build(_, _)
Properties_build(props, final) ==
    IF props = <<>> THEN final
    ELSE Properties_build(Tail(props), DictUpdate(final, Property_build(Head(props))))

\* create_data_source up to its first call: the call, or the exception
create_data_source_call(name, properties, parent_page_id, env) ==
    IF properties.t # "Properties" THEN Raise("AssertionError", "properties")
    ELSE IF PyTruthy(parent_page_id)
    THEN Call("databases.create",
              [parent |-> [type |-> "page_id", page_id |-> parent_page_id],
               title |-> <<TextRun(name)>>])
    ELSE IF ~PyTruthy(env) THEN Raise("AssertionError", "DEFAULT_NOTION_PAGE")
    ELSE Call("databases.create",
              [parent |-> [type |-> "page_id", page_id |-> env],
               title |-> <<TextRun(name)>>])

\* create_data_source between its two calls
after_creation(reg, name, creation) ==
    [[reg EXCEPT !.databases = DictSet(@, name, creation.id)]
        EXCEPT !.data_sources = DictSet(@, name, creation.data_sources[1].id)]
update_call(reg, name, properties) ==
    Call("data_sources.update",
         [data_source_id |-> Lookup(reg.data_sources, name),
          properties |-> Properties_build(properties.props, PyDict(<<>>))])

\* create_data_source once the update has answered
after_update(reg, name, creation, update) ==
    IF IsError(update) THEN Outcome(reg, update)
    ELSE LET template == SchemaTemplate_init(update.properties) IN
         IF IsError(template) THEN Outcome(reg, template)
         ELSE Outcome([reg EXCEPT !.data_templates = DictSet(@, name, template)],
                      [db_creation |-> creation, db_properties |-> update])

\* self.data_templates[name].to_page(properties)
template_to_page(reg, name, properties) ==
    IF ~HasKey(reg.data_templates, name) THEN Raise("KeyError", name)
    ELSE to_page("properties", Lookup(reg.data_templates, name), properties)

\* a create_page that sends whatever the encoding gave
create_page_call_unchecked(reg, name, properties) ==
    Call("pages.create",
         [parent |-> [data_source_id |-> get_id(reg, name)],
          properties |-> template_to_page(reg, name, properties)])

\* create_page up to its call: the arguments are evaluated first
create_page_call(reg, name, properties) ==
    IF IsError(get_id(reg, name)) THEN get_id(reg, name)
    ELSE IF IsError(template_to_page(reg, name, properties))
    THEN template_to_page(reg, name, properties)
    ELSE Call("pages.create",
              [parent |-> [data_source_id |-> get_id(reg, name)],
               properties |-> template_to_page(reg, name, properties)])

\* update_page up to its call
update_page_call(reg, name, page_id, properties) ==
    IF IsError(template_to_page(reg, name, properties))
    THEN template_to_page(reg, name, properties)
    ELSE Call("pages.update",
              [page_id |-> page_id,
               properties |-> template_to_page(reg, name, properties)])

\* one pass of the loop of query_pages up to its call
query_call(reg, args, ds_id, cursor, body) ==
    IF IsError(body) THEN body
    ELSE Call("request", [method |-> "post", path |-> ds_id, body |-> body])
query_pages_call(reg, args, ds_id, cursor) ==
    query_call(reg, args, ds_id, cursor,
               body_with(args, cursor, body_filter_of(reg.data_templates, args)))

\* the return of query_pages: the comprehension reads the template per page
query_pages_return(reg, name, results) ==
    IF results = <<>> THEN PyList(<<>>)
    ELSE IF ~HasKey(reg.data_templates, name) THEN Raise("KeyError", name)
    ELSE LET decoded == [i \in 1..Len(results) |->
                            from_page(Lookup(reg.data_templates, name), results[i])]
         IN  IF AnyError(decoded) THEN FirstError(decoded) ELSE PyList(decoded)

MaxFound == 2
MaxCalls == 2

\* what the workspace and the caller supply
MNames == {"DS", "X"}
GoodDoc ==
    PyDict(<<<<"A", [type |-> "title"]>>, <<"B", [type |-> "number"]>>,
             <<"C", [type |-> "created_time"]>>,
             <<"R", [type |-> "rollup", rollup |-> CompleteRollupInfo]>>>>)
BadDoc == PyDict(<<<<"A", [type |-> "title"]>>, <<"S", [type |-> "status"]>>>>)
DsTitles == {<<>>} \cup {<<[plain_text |-> n]>> : n \in MNames}
DsObjs ==
    {[id |-> PyStr(<<"i">>), title |-> t, properties |-> d,
      parent |-> [type |-> "database_id", database_id |-> PyStr(<<"d">>)]] :
        t \in DsTitles, d \in {GoodDoc, BadDoc}}
SearchResponses ==
    {TransportError, [object |-> "list"]}
    \cup {[object |-> "list", results |-> l] : l \in SeqsUpTo(DsObjs, MaxFound)}
PropertiesArgs ==
    {[t |-> "Properties",
      props |-> <<Prop("title", "A", None), Prop("number", "B", None)>>],
     PyDict(<<>>)}
PageIds == {None, PyStr(<<"p">>)}
CreationResponses ==
    {TransportError,
     [id |-> PyStr(<<"d">>), data_sources |-> <<[id |-> PyStr(<<"i">>)]>>]}
UpdateResponses ==
    {TransportError} \cup {[id |-> PyStr(<<"i">>), properties |-> d] :
                              d \in {GoodDoc, BadDoc}}
PageArgs ==
    {PyDict(<<<<"A", PyStr(<<"a">>)>>>>), PyDict(<<<<"A", PyInt(1)>>>>),
     PyDict(<<<<"Z", PyStr(<<"a">>)>>>>), PyDict(<<<<"C", PyStr(<<"a">>)>>>>),
     PyDict(<<<<"A", PyStr(<<"a">>)>>, <<"B", PyInt(1)>>>>)}
PageResponses == {TransportError, [object |-> "page", id |-> PyStr(<<"p">>)]}
MFilters ==
    {None,
     PyList(<<PyDict(<<<<"A", PyStr(<<"a">>)>>>>)>>),
     PyList(<<PyDict(<<<<"N", PyStr(<<"a">>)>>>>)>>),
     PyList(<<PyDict(<<<<"A", PyStr(<<"a">>)>>, <<"R", PyInt(1)>>>>)>>)}
MQueryArgs ==
    {[data_source_name |-> n, filters |-> f, filter_type |-> "and",
      sorts |-> PyList(<<>>), max_requests |-> m, page_size |-> 1] :
        n \in MNames, f \in MFilters, m \in {None, PyInt(1)}}
QueryResponses ==
    {TransportError,
     [results |-> <<>>, has_more |-> TRUE, next_cursor |-> CursorOf(1)],
     [results |-> <<PageRecord(1, 1)>>, has_more |-> TRUE,
      next_cursor |-> CursorOf(1)],
     [results |-> <<PageRecord(1, 1)>>, has_more |-> FALSE, next_cursor |-> None]}

notManager ==
    <<codecVars, schemaVars, rollupVars, recordVars, filterVars, queryVars>>
registryVars == <<data_sources, databases, data_templates>>

\* before __init__ has run: the three mappings are empty
ManagerInit ==
    /\ CodecIdle
    /\ SchemaIdle
    /\ RollupIdle
    /\ RecordIdle
    /\ FilterIdle
    /\ QueryIdle
    /\ mPc = "new"
    /\ data_sources = PyDict(<<>>)
    /\ databases = PyDict(<<>>)
    /\ data_templates = PyDict(<<>>)
    /\ mOp = None
    /\ mLocal = None
    /\ mOut = None
    /\ mCalls = <<>>
    /\ mFlight = {}
    /\ mBefore = None

\* an operation starts: it raises at once, or hands its first call over
Launch(call, wait) ==
    IF IsError(call)
    THEN /\ mOut' = call
         /\ mPc' = "idle"
         /\ mCalls' = <<>>
         /\ mFlight' = {}
    ELSE /\ mOut' = None
         /\ mPc' = wait
         /\ mCalls' = <<call>>
         /\ mFlight' = {1}

\* an operation ends: the registry it leaves, what it returned or raised; an
\* __init__ that raises leaves no object behind
Settle(done) ==
    /\ data_sources' = done.reg.data_sources
    /\ databases' = done.reg.databases
    /\ data_templates' = done.reg.data_templates
    /\ mOut' = done.out
    /\ mPc' = IF IsError(done.out) /\ mOp.op = "__init__" THEN "dead" ELSE "idle"
    /\ mFlight' = {}

SearchCall ==
    Call("search", [filter |-> [property |-> "object", value |-> "data_source"]])

\* NotionDSManager(token): __init__ calls discover_data_sources
NewManager ==
    /\ mPc = "new"
    /\ mOp' = [op |-> "__init__"]
    /\ mBefore' = Registry
    /\ Launch(SearchCall, "search")
    /\ UNCHANGED <<registryVars, mLocal, notManager>>

Discover ==
    /\ mPc = "idle"
    /\ mOp' = [op |-> "discover_data_sources"]
    /\ mBefore' = Registry
    /\ Launch(SearchCall, "search")
    /\ UNCHANGED <<registryVars, mLocal, notManager>>

SearchAnswered ==
    /\ mPc = "search"
    /\ \E results \in SearchResponses :
          Settle(discover_data_sources(Registry, results))
    /\ UNCHANGED <<mOp, mLocal, mCalls, mBefore, notManager>>

CreateDataSource ==
    /\ mPc = "idle"
    /\ \E name \in MNames, properties \in PropertiesArgs,
          parent_page_id \in PageIds, env \in PageIds :
          /\ mOp' = [op |-> "create_data_source", name |-> name,
                     properties |-> properties]
          /\ Launch(create_data_source_call(PyStr(<<name>>), properties,
                                            parent_page_id, env),
                    "db_create")
    /\ mBefore' = Registry
    /\ UNCHANGED <<registryVars, mLocal, notManager>>

\* the update sent without waiting for databases.create to be answered
Entered_overlap(reg, creation) ==
    /\ data_sources' = reg.data_sources
    /\ databases' = reg.databases
    /\ mLocal' = creation
    /\ mCalls' = Append(mCalls, update_call(reg, mOp.name, mOp.properties))
    /\ mFlight' = mFlight \cup {Len(mCalls) + 1}
    /\ mPc' = "ds_update"
    /\ UNCHANGED <<data_templates, mOut>>

\* databases.create has answered: the two ids are entered and the update sent
Entered(reg, creation) ==
    /\ data_sources' = reg.data_sources
    /\ databases' = reg.databases
    /\ mLocal' = creation
    /\ mCalls' = Append(mCalls, update_call(reg, mOp.name, mOp.properties))
    /\ mFlight' = {Len(mCalls) + 1}
    /\ mPc' = "ds_update"
    /\ UNCHANGED <<data_templates, mOut>>
Raised(exception) ==
    /\ mOut' = exception
    /\ mPc' = "idle"
    /\ mFlight' = {}
    /\ UNCHANGED <<registryVars, mLocal, mCalls>>
DbCreateAnswered ==
    /\ mPc = "db_create"
    /\ \E creation \in CreationResponses :
          IF IsError(creation) THEN Raised(creation)
          ELSE Entered(after_creation(Registry, mOp.name, creation), creation)
    /\ UNCHANGED <<mOp, mBefore, notManager>>

DsUpdateAnswered ==
    /\ mPc = "ds_update"
    /\ \E update \in UpdateResponses :
          Settle(after_update(Registry, mOp.name, mLocal, update))
    /\ UNCHANGED <<mOp, mLocal, mCalls, mBefore, notManager>>

CreatePage ==
    /\ mPc = "idle"
    /\ \E name \in MNames, properties \in PageArgs :
          /\ mOp' = [op |-> "create_page", name |-> name, properties |-> properties]
          /\ Launch(create_page_call(Registry, name, properties), "page")
    /\ mBefore' = Registry
    /\ UNCHANGED <<registryVars, mLocal, notManager>>

UpdatePage ==
    /\ mPc = "idle"
    /\ \E name \in MNames, properties \in PageArgs :
          /\ mOp' = [op |-> "update_page", name |-> name, properties |-> properties]
          /\ Launch(update_page_call(Registry, name, PyStr(<<"p">>), properties),
                    "page")
    /\ mBefore' = Registry
    /\ UNCHANGED <<registryVars, mLocal, notManager>>

\* pages.create or pages.update has answered: create_page returns the
\* response, update_page has no return statement
Returns(response) ==
    IF IsError(response) \/ mOp.op = "create_page" THEN response ELSE None
PageAnswered ==
    /\ mPc = "page"
    /\ \E response \in PageResponses : mOut' = Returns(response)
    /\ mPc' = "idle"
    /\ mFlight' = {}
    /\ UNCHANGED <<registryVars, mOp, mLocal, mCalls, mBefore, notManager>>

\* what query_pages keeps between its passes, and the number of responses
\* it has taken in
QueryLocals(ds_id, results, cursor, has_more, fetched) ==
    [ds_id |-> ds_id, results |-> results, cursor |-> cursor,
     has_more |-> has_more, fetched |-> fetched]

\* query_pages starts: get_id, then the locals
Enter(args, ds_id) ==
    IF IsError(ds_id)
    THEN mOut' = ds_id /\ mPc' = "idle" /\ mLocal' = None
    ELSE /\ mOut' = None
         /\ mPc' = "q_loop"
         /\ mLocal' = QueryLocals(ds_id, <<>>, None, TRUE, 0)
QueryPages ==
    /\ mPc = "idle"
    /\ \E args \in MQueryArgs :
          /\ mOp' = [op |-> "query_pages", name |-> args.data_source_name,
                     args |-> args]
          /\ Enter(args, get_id(Registry, args.data_source_name))
    /\ mBefore' = Registry
    /\ mCalls' = <<>>
    /\ mFlight' = {}
    /\ UNCHANGED <<registryVars, notManager>>

MLoopCondition ==
    /\ mLocal.has_more
    /\ ~over_requests(mOp.args.max_requests, mLocal.results, mOp.args.page_size)

\* one pass of the loop up to its request
Pass(call) ==
    IF IsError(call)
    THEN /\ mOut' = call
         /\ mPc' = "idle"
         /\ UNCHANGED <<mCalls, mFlight>>
    ELSE /\ mCalls' = Append(mCalls, call)
         /\ mFlight' = mFlight \cup {Len(mCalls) + 1}
         /\ mPc' = "q_wait"
         /\ UNCHANGED mOut
QueryPass ==
    /\ mPc = "q_loop"
    /\ MLoopCondition
    /\ Len(mCalls) < MaxCalls
    /\ Pass(query_pages_call(Registry, mOp.args, mLocal.ds_id, mLocal.cursor))
    /\ UNCHANGED <<registryVars, mOp, mLocal, mBefore, notManager>>

\* the request has answered: the rest of the pass
Taken(after) ==
    /\ mLocal' = QueryLocals(mLocal.ds_id, after.results, after.cursor,
                             after.has_more, mLocal.fetched + 1)
    /\ mPc' = "q_loop"
    /\ UNCHANGED mOut
QueryAnswered ==
    /\ mPc = "q_wait"
    /\ \E response \in QueryResponses :
          IF IsError(response)
          THEN mOut' = response /\ mPc' = "idle" /\ UNCHANGED mLocal
          ELSE Taken(after_response(mLocal.results, response))
    /\ mFlight' = {}
    /\ UNCHANGED <<registryVars, mOp, mCalls, mBefore, notManager>>

QueryDone ==
    /\ mPc = "q_loop"
    /\ ~MLoopCondition
    /\ mOut' = query_pages_return(Registry, mOp.name, mLocal.results)
    /\ mPc' = "idle"
    /\ UNCHANGED <<registryVars, mOp, mLocal, mCalls, mFlight, mBefore, notManager>>

ManagerNext ==
    \/ NewManager
    \/ Discover
    \/ SearchAnswered
    \/ CreateDataSource
    \/ DbCreateAnswered
    \/ DsUpdateAnswered
    \/ CreatePage
    \/ UpdatePage
    \/ PageAnswered
    \/ QueryPages
    \/ QueryPass
    \/ QueryAnswered
    \/ QueryDone
ManagerSpec == ManagerInit /\ [][ManagerNext]_vars

\* an operation has run to its end; it returned
Running == mPc \notin {"off", "new"}
Finished == mPc = "idle"
Returned == Finished /\ ~IsError(mOut)
OneCallOps == {"__init__", "discover_data_sources", "create_page", "update_page"}
Methods == [i \in 1..Len(mCalls) |-> mCalls[i].method]

\* calls are made one at a time, and a page fetch is one call
OneAtATime ==
    /\ Cardinality(mFlight) <= 1
    /\ mPc \in {"new", "idle", "dead", "q_loop"} => mFlight = {}
    /\ (Running /\ mOp.op = "query_pages" /\ mPc = "q_loop") =>
          Len(mCalls) = mLocal.fetched
    /\ (Running /\ mOp.op = "query_pages" /\ mPc = "q_wait") =>
          /\ Len(mCalls) = mLocal.fetched + 1
          /\ mFlight = {Len(mCalls)}

\* C12, in the words of the specification: every operation that returns has
\* issued exactly one transport call, a page fetch of query_pages is one
\* call, and no two calls are in flight at once.
C12_ExactlyOneCall ==
    /\ OneAtATime
    /\ (Returned /\ mOp.op \in OneCallOps \cup {"create_data_source"}) =>
          Len(mCalls) = 1

\* C12, in the form the code satisfies: calls are issued one at a time, each
\* answered before the next; discover_data_sources, create_page and
\* update_page that return have issued exactly one call, a page fetch of
\* query_pages is one call, and create_data_source that returns has issued
\* two, databases.create and then data_sources.update.
C12_OneCallAtATime ==
    /\ OneAtATime
    /\ (Returned /\ mOp.op \in OneCallOps) => Len(mCalls) = 1
    /\ (Returned /\ mOp.op = "create_data_source") =>
          Methods = <<"databases.create", "data_sources.update">>
C12_Witness ==
    /\ Returned
    /\ mOp.op = "create_data_source"
    /\ Methods = <<"databases.create", "data_sources.update">>
    /\ mFlight = {}
    /\ HasKey(data_templates, mOp.name)

\* C18: whenever no operation is running, data_sources, databases and
\* data_templates have the same keys.
C18_RegistryConsistent ==
    Finished =>
        /\ DictKeys(data_sources) = DictKeys(databases)
        /\ DictKeys(data_sources) = DictKeys(data_templates)

PageOp == Running /\ mOp.op \in {"create_page", "update_page"}
QueryOp == Running /\ mOp.op = "query_pages"
Untouched == mCalls = <<>> /\ Registry = mBefore

\* C19: create_page and update_page whose record does not encode, and
\* query_pages on an unregistered name or with a filter that raises, issue no
\* transport call, raise, and leave the three mappings as they were.
C19_ErrorsBeforeCalls ==
    /\ (PageOp /\ IsError(template_to_page(mBefore, mOp.name, mOp.properties))) =>
          (Untouched /\ Finished /\ IsError(mOut))
    /\ (QueryOp /\ ~HasKey(mBefore.data_sources, mOp.name)) =>
          (Untouched /\ Finished /\ mOut = Raise("KeyError", mOp.name))
    /\ (QueryOp /\ IsError(body_filter_of(mBefore.data_templates, mOp.args))) =>
          Untouched
C19_Witness ==
    /\ PageOp
    /\ mOp.op = "create_page"
    /\ HasKey(data_templates, mOp.name)
    /\ mOp.properties = PyDict(<<<<"A", PyInt(1)>>>>)
    /\ mOut = Raise("TypeError", "A")
    /\ mCalls = <<>>

=============================================================================
